---- MODULE Spec2Model ----
(***************************************************************************)
(* Model of parse.py: the header reader, the row_parser generator over a   *)
(* BufferedReader, get_data with its two observers, the UserBalance        *)
(* tracker, and the command-line block.                                    *)
(*                                                                         *)
(* Bytes are integers 0..255 and a file is a sequence of bytes.            *)
(* Python integers are unbounded; a decoded integer is kept as a sign and  *)
(* a big-endian base-256 magnitude without leading zeros (PyInt), so that  *)
(* 32- and 64-bit fields keep their full width.                            *)
(* Amounts are IEEE-754 doubles.  The frames used here carry doubles whose *)
(* value is a multiple of 1/64 of small magnitude; unpack_d gives the      *)
(* value in units of 1/64, and on these values double addition and         *)
(* subtraction are exact, so they are integer addition and subtraction.    *)
(***************************************************************************)
EXTENDS Integers, Sequences, FiniteSets, TLC

\* ------------------------------------------------------------------ events
CREDIT == 0
DEBIT == 1
START_AUTOPAY == 2
STOP_AUTOPAY == 3

\* variant: DEBIT left out of the list
TRANSACTIONS_CreditOnly == {CREDIT}

TRANSACTIONS == {CREDIT, DEBIT}

\* record_type_map.get(e): the label, or None (written by csv as "")
record_type_map(e) ==
    CASE e = 0 -> "CREDIT"
      [] e = 1 -> "DEBIT"
      [] e = 2 -> "START_AUTOPAY"
      [] e = 3 -> "STOP_AUTOPAY"
      [] OTHER -> ""

\* ----------------------------------------------------------------- structs
\* A struct format is the sequence of its field codes (big-endian, standard
\* sizes, no padding).
\* variant: the record count as an 8-byte field
header_struct_Wide == <<"c", "c", "c", "c", "b", "q">>

header_struct == <<"c", "c", "c", "c", "b", "l">>
type_struct == <<"b">>
transaction_struct == <<"b", "i", "q", "d">>
instruction_struct == <<"b", "i", "q">>

FieldSize(c) ==
    CASE c = "c" -> 1
      [] c = "b" -> 1
      [] c = "i" -> 4
      [] c = "l" -> 4
      [] c = "q" -> 8
      [] c = "d" -> 8

RECURSIVE StructSize(_)
StructSize(fmt) ==
    IF fmt = <<>> THEN 0 ELSE FieldSize(Head(fmt)) + StructSize(Tail(fmt))

Min(a, b) == IF a < b THEN a ELSE b

RECURSIVE Pow2(_)
Pow2(n) == IF n = 0 THEN 1 ELSE 2 * Pow2(n - 1)

\* ---------------------------------------------------------------- integers
RECURSIVE StripZeros(_)
StripZeros(b) ==
    IF b = <<>> THEN <<>>
    ELSE IF Head(b) = 0 THEN StripZeros(Tail(b)) ELSE b

\* a Python int: sign and big-endian base-256 magnitude
PyInt(neg, bytes) == [neg |-> neg, mag |-> StripZeros(bytes)]

Invert(b) == [i \in 1..Len(b) |-> 255 - b[i]]

RECURSIVE Incr(_)
Incr(b) ==
    IF b = <<>> THEN <<>>
    ELSE LET n == Len(b) IN
         IF b[n] < 255 THEN [b EXCEPT ![n] = @ + 1]
         ELSE Incr(SubSeq(b, 1, n - 1)) \o <<0>>

\* big-endian two's complement, as the codes b, i, l, q decode
SignedInt(b) ==
    IF b[1] >= 128 THEN PyInt(TRUE, Incr(Invert(b))) ELSE PyInt(FALSE, b)

\* big-endian unsigned value of the same bytes
UnsignedInt(b) == PyInt(FALSE, b)

\* code b into a small integer (used for the event and the version)
SignedByte(x) == IF x >= 128 THEN x - 256 ELSE x

\* code d: big-endian IEEE-754 double, in units of 1/64.  Exact on the
\* doubles whose mantissa has at most its top four bits set and whose
\* exponent is -2..7 (and on zero), which are the amounts of the frames used
\* here; a smaller exponent is below the unit and gives 0, a larger one is
\* taken as 7.
unpack_d(b) ==
    LET sign == b[1] \div 128
        e    == (b[1] % 128) * 16 + (b[2] \div 16)
        m4   == b[2] % 16
    IN  IF e < 1021 THEN 0
        ELSE (IF sign = 1 THEN -1 ELSE 1) * Pow2(Min(e, 1030) - 1021)
                * (16 + m4)

DecodeField(c, b) ==
    CASE c = "c" -> b
      [] c = "b" -> SignedByte(b[1])
      [] c = "d" -> unpack_d(b)
      [] OTHER   -> SignedInt(b)

RECURSIVE UnpackFields(_, _)
UnpackFields(fmt, data) ==
    IF fmt = <<>> THEN <<>>
    ELSE LET n == FieldSize(Head(fmt)) IN
         <<DecodeField(Head(fmt), SubSeq(data, 1, n))>>
            \o UnpackFields(Tail(fmt), SubSeq(data, n + 1, Len(data)))

\* Struct.unpack raises struct.error unless the data has exactly the size
UnpackOk(fmt, data) == Len(data) = StructSize(fmt)

\* --------------------------------------------------------------- UTF-8
Cont(x) == x >= 128 /\ x <= 191

\* strict UTF-8 validity, as bytes.decode('UTF-8') checks it
RECURSIVE Utf8Valid(_)
Utf8Valid(b) ==
    IF b = <<>> THEN TRUE
    ELSE LET x == b[1]
             n == Len(b)
         IN  IF x < 128 THEN Utf8Valid(Tail(b))
             ELSE IF x >= 194 /\ x <= 223
                  THEN n >= 2 /\ Cont(b[2]) /\ Utf8Valid(SubSeq(b, 3, n))
             ELSE IF x >= 224 /\ x <= 239
                  THEN /\ n >= 3 /\ Cont(b[2]) /\ Cont(b[3])
                       /\ (x = 224 => b[2] >= 160)
                       /\ (x = 237 => b[2] <= 159)
                       /\ Utf8Valid(SubSeq(b, 4, n))
             ELSE IF x >= 240 /\ x <= 244
                  THEN /\ n >= 4 /\ Cont(b[2]) /\ Cont(b[3]) /\ Cont(b[4])
                       /\ (x = 240 => b[2] >= 144)
                       /\ (x = 244 => b[2] <= 143)
                       /\ Utf8Valid(SubSeq(b, 5, n))
             ELSE FALSE

\* ------------------------------------------------------------ the readers
\* __reader / transaction_reader / instruction_reader
Transaction(v) ==
    [shape |-> "Transaction", event |-> v[1], timestamp |-> v[2],
     user_id |-> v[3], amount |-> v[4]]

Instruction(v) ==
    [shape |-> "Instruction", event |-> v[1], timestamp |-> v[2],
     user_id |-> v[3]]

transaction_reader(data) == Transaction(UnpackFields(transaction_struct, data))
instruction_reader(data) == Instruction(UnpackFields(instruction_struct, data))

Header(data) ==
    LET v == UnpackFields(header_struct, data) IN
    [mainframe_name |-> v[1] \o v[2] \o v[3] \o v[4],
     version |-> v[5], record_count |-> v[6]]

\* header_reader raises when the read is short (struct.error) or when the
\* four name bytes are not UTF-8 (UnicodeDecodeError); "" when it succeeds
\* variant: the name is not decoded
HeaderError_NoDecode(data) ==
    IF ~UnpackOk(header_struct, data) THEN "StructError" ELSE ""

HeaderError(data) ==
    IF ~UnpackOk(header_struct, data) THEN "StructError"
    ELSE IF ~Utf8Valid(SubSeq(data, 1, 4)) THEN "UnicodeDecodeError"
    ELSE ""

\* the struct row_parser reads for a discriminant
FrameStruct(row_type) ==
    IF row_type \in TRANSACTIONS THEN transaction_struct ELSE instruction_struct

FrameReader(row_type, data) ==
    IF row_type \in TRANSACTIONS THEN transaction_reader(data)
    ELSE instruction_reader(data)

\* ----------------------------------------------------------------- inputs
MaxFrames == 2

TS1 == <<0, 0, 0, 1>>
TS2 == <<128, 0, 0, 2>>
UID1 == <<0, 0, 0, 0, 0, 0, 0, 7>>
UID2 == <<255, 255, 255, 255, 255, 255, 255, 249>>
Amt150 == <<63, 248, 0, 0, 0, 0, 0, 0>>
Amt025 == <<63, 208, 0, 0, 0, 0, 0, 0>>
Amt200 == <<64, 0, 0, 0, 0, 0, 0, 0>>

CreditFrame == <<0>> \o TS1 \o UID1 \o Amt150
DebitFrame == <<1>> \o TS2 \o UID1 \o Amt025
CreditFrame2 == <<0>> \o TS1 \o UID2 \o Amt200
StartFrame == <<2>> \o TS1 \o UID1
StopFrame == <<3>> \o TS2 \o UID2
UnknownFrame == <<4>> \o TS1 \o UID1
UnknownFrame2 == <<129>> \o TS1 \o UID2

FrameSet ==
    {CreditFrame, DebitFrame, CreditFrame2, StartFrame, StopFrame,
     UnknownFrame, UnknownFrame2}

\* trailing bytes: a proper prefix of a frame
ExtraSet ==
    {<<>>}
      \cup {SubSeq(CreditFrame, 1, n) : n \in {1, 13, 20}}
      \cup {SubSeq(StartFrame, 1, n) : n \in {1, 12}}

\* name "MPS7", version 1, record_count 2
GoodHeader == <<77, 80, 83, 55, 1, 0, 0, 0, 2>>
\* name "éAB" (two-byte first character), version 1, record_count 0
GoodHeader2 == <<195, 169, 65, 66, 1, 0, 0, 0, 0>>
\* 0xFF is never valid in UTF-8
BadNameHeader == <<77, 255, 83, 55, 1, 0, 0, 0, 2>>

HeaderSet == {GoodHeader, GoodHeader2, BadNameHeader}
ShortFiles == {SubSeq(GoodHeader, 1, n) : n \in {0, 3, 8}}

RECURSIVE Flatten(_)
Flatten(ss) == IF ss = <<>> THEN <<>> ELSE Head(ss) \o Flatten(Tail(ss))

NoneVal == [none |-> TRUE]
PyStr(s) == [str |-> s]
Truthy(v) == v # NoneVal /\ v # PyStr("")

\* the user ids a tracker is built for: 7, and -7 (what UID2 decodes to)
TrackerIds == {PyInt(FALSE, <<7>>), PyInt(TRUE, <<7>>)}
ArgUserIds == {NoneVal, PyStr("7")}

\* BufferedReader(datafile, 1)
BufferSize == 1

\* buffer sizes of a BufferedReader handed to row_parser: 1, 2, and one
\* larger than every file here (as the default of 8192 is)
BufferSizes == {1, 2, 128}

\* calls of get_data on the same reader
MaxCalls == 2

\* ------------------------------------------------------------------ state
VARIABLES
    mode,        \* "cli": the __main__ block; "api": get_data called directly
    file,        \* the bytes of the input
    frames,      \* the complete frames the record bytes were built from
    extra,       \* the trailing bytes after the last complete frame
    args,        \* parsed command line (cli)
    pc,          \* position of the program
    pos,         \* the reader's logical offset
    avail,       \* bytes buffered ahead of pos
    bufsize,     \* the reader's buffer size
    datafile,    \* "unopened", "open", "closed"
    report_file, \* "none", "open", "closed"
    header,      \* the decoded Header, or NoneVal
    stdout,      \* what was printed
    tracker,     \* user_account_tracker: [present, user_id, balance]
    fw,          \* a file_writer is registered
    csv_rows,    \* rows written by the file_writer
    totals,      \* [debits, credits, starts, stops] of get_data
    row,         \* the record get_data is processing
    yielded,     \* the records row_parser yielded, in order
    offsets,     \* the offset each yielded record was read at
    seen_fw,     \* the records passed to the file_writer, in order
    seen_tr,     \* the records passed to the tracker, in order
    classified,  \* per classified record, the set of totals it changed
    npeeks,      \* calls of peek
    start,       \* the offset row_parser started at
    err,         \* the exception raised, "" when none
    result,      \* what the first call of get_data returned, NoneVal before
    peeked,      \* per peek: the offset before it, after it, and its bytes
    results      \* what each call of get_data returned, in order

vars ==
    <<mode, file, frames, extra, args, pc, pos, avail, bufsize, datafile,
      report_file, header, stdout, tracker, fw, csv_rows, totals, row,
      yielded, offsets, seen_fw, seen_tr, classified, npeeks, start, err,
      result, peeked, results>>

ZeroTotals == [debits |-> 0, credits |-> 0, starts |-> 0, stops |-> 0]

\* UserBalance.__init__
UserBalanceInit(uid) == [present |-> TRUE, user_id |-> uid, balance |-> 0]
NoTracker == [present |-> FALSE, user_id |-> NoneVal, balance |-> 0]

InitCommon ==
    /\ pos = 0 /\ avail = 0
    /\ header = NoneVal /\ stdout = <<>>
    /\ totals = ZeroTotals /\ row = NoneVal
    /\ yielded = <<>> /\ offsets = <<>> /\ seen_fw = <<>> /\ seen_tr = <<>>
    /\ classified = <<>> /\ npeeks = 0 /\ err = "" /\ result = NoneVal
    /\ csv_rows = <<>> /\ report_file = "none"
    /\ peeked = <<>> /\ results = <<>>

\* get_data(BufferedReader(BytesIO(rows), 1), ...) as the tests call it
InitApi ==
    /\ mode = "api"
    /\ \E k \in 0..MaxFrames : \E fs \in [1..k -> FrameSet] :
       \E ex \in ExtraSet :
          /\ frames = fs /\ extra = ex
          /\ file = Flatten(fs) \o ex
    /\ args = NoneVal
    /\ \E t \in {NoTracker} \cup {UserBalanceInit(u) : u \in TrackerIds} :
          tracker = t
    /\ fw \in BOOLEAN
    /\ datafile = "open"
    /\ start = 0
    /\ pc = "next"
    /\ InitCommon

\* python parse.py --input ... [--user_id ...] [--output ...] [--no_stats]
InitCli ==
    /\ mode = "cli"
    /\ \/ \E k \in 0..MaxFrames : \E fs \in [1..k -> FrameSet] :
          \E ex \in ExtraSet : \E h \in HeaderSet :
             /\ frames = fs /\ extra = ex
             /\ file = h \o Flatten(fs) \o ex
       \/ /\ file \in ShortFiles
          /\ frames = <<>> /\ extra = <<>>
    /\ \E u \in ArgUserIds : \E o \in BOOLEAN : \E n \in BOOLEAN :
          args = [user_id |-> u, output |-> o, no_stats |-> n]
    /\ tracker = NoTracker
    /\ fw = FALSE
    /\ datafile = "unopened"
    /\ start = StructSize(header_struct)
    /\ pc = "start"
    /\ InitCommon

\* the reader as the program and the tests build it: buffer size 1
Init == bufsize = BufferSize /\ (InitApi \/ InitCli)

\* the reader as any caller of row_parser / get_data may build it
InitAnyBuffer == bufsize \in BufferSizes /\ (InitApi \/ InitCli)

\* ------------------------------------------------------- the BufferedReader
\* peek(n): the buffered bytes when there are any, else one raw read of up
\* to bufsize bytes; n is not used.  The offset does not move.
PeekLen == IF avail > 0 THEN avail ELSE Min(bufsize, Len(file) - pos)
PeekData == SubSeq(file, pos + 1, pos + PeekLen)

\* the offset after peek() at offset p returned n bytes
\* variant: the bytes are consumed, as by read()
PeekPos_Consuming(p, n) == p + n

PeekPos(p, n) == p

\* the entry of the log of peeks
PeekEntry == [at |-> pos, after |-> PeekPos(pos, PeekLen), data |-> PeekData]

\* read(n): up to n bytes from the offset, fewer only at the end of file
ReadLen(p, n) == Min(n, Len(file) - p)
ReadData(p, n) == SubSeq(file, p + 1, p + ReadLen(p, n))

\* bytes left in the buffer after read(n) with a bytes buffered at offset p
ReadAvail(p, a, n) ==
    IF n <= a THEN a - n
    ELSE LET need   == n - a
             rawrem == Len(file) - (p + a)
             direct == bufsize * (need \div bufsize)
             rest   == need - direct
             got    == Min(bufsize, rawrem - direct)
         IN  IF rawrem < direct \/ rest = 0 \/ got <= rest THEN 0
             ELSE got - rest

\* ------------------------------------------------------------- observers
\* _row_writer: the row as a dict over the four csv fields, the record type
\* mapped to its label; a missing amount is written blank
RowWriter(r) ==
    [type |-> record_type_map(r.event), timestamp |-> r.timestamp,
     user_id |-> r.user_id,
     amount |-> IF r.shape = "Transaction" THEN <<r.amount>> ELSE <<>>]

\* row.amount exists on a Transaction only; reading it on an Instruction
\* raises AttributeError
HasAmount(r) == r.shape = "Transaction"

\* variant: no comparison of the user ids
UserBalanceCall_NoFilter(t, r) ==
    IF r.event = CREDIT THEN [t EXCEPT !.balance = @ + r.amount]
    ELSE IF r.event = DEBIT THEN [t EXCEPT !.balance = @ - r.amount]
    ELSE t

\* UserBalance.__call__
UserBalanceCall(t, r) ==
    IF r.user_id # t.user_id THEN t
    ELSE IF r.event = CREDIT THEN [t EXCEPT !.balance = @ + r.amount]
    ELSE IF r.event = DEBIT THEN [t EXCEPT !.balance = @ - r.amount]
    ELSE t

\* UserBalance.__call__ reads row.amount
TrackerReadsAmount(t, r) ==
    r.user_id = t.user_id /\ r.event \in {CREDIT, DEBIT}

\* variant: the CREDIT and DEBIT branches exchanged
Category_Swapped(r) ==
    IF r.event = CREDIT THEN "debits"
    ELSE IF r.event = DEBIT THEN "credits"
    ELSE IF r.event = START_AUTOPAY THEN "starts"
    ELSE IF r.event = STOP_AUTOPAY THEN "stops"
    ELSE "none"

\* variant: the last branch as an else
Category_ElseStops(r) ==
    IF r.event = CREDIT THEN "credits"
    ELSE IF r.event = DEBIT THEN "debits"
    ELSE IF r.event = START_AUTOPAY THEN "starts"
    ELSE "stops"

\* the if/elif chain of get_data: which total the row is added to
Category(r) ==
    IF r.event = CREDIT THEN "credits"
    ELSE IF r.event = DEBIT THEN "debits"
    ELSE IF r.event = START_AUTOPAY THEN "starts"
    ELSE IF r.event = STOP_AUTOPAY THEN "stops"
    ELSE "none"

Classified(t, r) ==
    LET c == Category(r) IN
    IF c = "credits" THEN [t EXCEPT !.credits = @ + r.amount]
    ELSE IF c = "debits" THEN [t EXCEPT !.debits = @ + r.amount]
    ELSE IF c = "starts" THEN [t EXCEPT !.starts = @ + 1]
    ELSE IF c = "stops" THEN [t EXCEPT !.stops = @ + 1]
    ELSE t

\* the totals whose value differs between t and u
Changed(t, u) == {f \in DOMAIN t : t[f] # u[f]}

\* the body of the for loop of get_data, in order: file_writer, then
\* user_account_tracker, then the totals
\* variant: the totals first, the observers never
AfterYield_NoObservers(hasWriter, hasTracker) == "classify"

AfterYield(hasWriter, hasTracker) ==
    IF hasWriter THEN "writer" ELSE IF hasTracker THEN "tracker" ELSE "classify"

\* variant: the loop goes on to the next record after the file_writer
AfterWriter_Continue(hasTracker) == "next"

AfterWriter(hasTracker) == IF hasTracker THEN "tracker" ELSE "classify"

\* the loop of row_parser, "while True", after n records with header h
\* variant: the loop ends after record_count records
LoopCondition_Count(n, h) ==
    IF h = NoneVal THEN TRUE ELSE h.record_count # PyInt(FALSE, <<n>>)

LoopCondition(n, h) == TRUE

\* an exception leaving get_data: the finally block of the command-line
\* run, or the caller of get_data
Raise == IF mode = "cli" THEN "finally" ELSE "raised"

\* ---------------------------------------------------------------- actions
\* datafile = open(args.input, "rb"); buffered_data = BufferedReader(datafile, 1)
Open ==
    /\ pc = "start"
    /\ datafile' = "open"
    /\ pc' = "header"
    /\ UNCHANGED <<mode, file, frames, extra, args, pos, avail, bufsize,
                   report_file, header, stdout, tracker, fw, csv_rows, totals,
                   row, yielded, offsets, seen_fw, seen_tr, classified,
                   npeeks, start, err, result,
                   peeked, results>>

\* header_reader(buffered_data) and the print that follows it.  The call is
\* outside the try block: an exception ends the program there.
HeaderReader ==
    /\ pc = "header"
    /\ LET n    == StructSize(header_struct)
           data == ReadData(pos, n)
           e    == HeaderError(data)
       IN  /\ pos' = pos + ReadLen(pos, n)
           /\ avail' = ReadAvail(pos, avail, n)
           /\ IF e # ""
              THEN /\ err' = e
                   /\ pc' = "crashed"
                   /\ UNCHANGED <<header, stdout>>
              ELSE /\ header' = Header(data)
                   /\ stdout' = Append(stdout, <<"header", Header(data)>>)
                   /\ pc' = "setup"
                   /\ UNCHANGED err
    /\ UNCHANGED <<mode, file, frames, extra, args, bufsize, datafile,
                   report_file, tracker, fw, csv_rows, totals, row, yielded,
                   offsets, seen_fw, seen_tr, classified, npeeks, start,
                   result,
                   peeked, results>>

\* the start of the try block: the report file, the two helpers, and the
\* call of get_data with its four totals initialised
Setup ==
    /\ pc = "setup"
    /\ report_file' = IF args.output THEN "open" ELSE "none"
    /\ fw' = args.output
    /\ csv_rows' = IF args.output THEN <<"fieldnames">> ELSE <<>>
    /\ tracker' = IF Truthy(args.user_id) THEN UserBalanceInit(args.user_id)
                  ELSE NoTracker
    /\ totals' = ZeroTotals
    /\ pc' = "next"
    /\ UNCHANGED <<mode, file, frames, extra, args, pos, avail, bufsize,
                   datafile, header, stdout, row, yielded, offsets, seen_fw,
                   seen_tr, classified, npeeks, start, err, result,
                   peeked, results>>

\* row_parser, one turn of its loop: the peek does not unpack to one byte,
\* the generator returns, the for loop ends and get_data returns its totals
RowParserStop ==
    /\ pc = "next"
    /\ ~LoopCondition(Len(yielded), header) \/ ~UnpackOk(type_struct, PeekData)
    /\ pos' = PeekPos(pos, PeekLen)
    /\ avail' = PeekLen
    /\ npeeks' = npeeks + 1
    /\ peeked' = Append(peeked, PeekEntry)
    /\ LET ret == <<totals.debits, totals.credits, totals.starts,
                    totals.stops>>
       IN  /\ result' = IF results = <<>> THEN ret ELSE result
           /\ results' = Append(results, ret)
    /\ pc' = IF mode = "cli" THEN "print" ELSE "done"
    /\ UNCHANGED <<mode, file, frames, extra, args, bufsize, datafile,
                   report_file, header, stdout, tracker, fw, csv_rows, totals,
                   row, yielded, offsets, seen_fw, seen_tr, classified, start,
                   err>>

\* row_parser, one turn of its loop: the frame read is short, unpack raises
\* struct.error outside the try of row_parser; it leaves get_data too
RowParserRaise ==
    /\ pc = "next"
    /\ LoopCondition(Len(yielded), header)
    /\ UnpackOk(type_struct, PeekData)
    /\ LET row_type == UnpackFields(type_struct, PeekData)[1]
           n        == StructSize(FrameStruct(row_type))
           p        == PeekPos(pos, PeekLen)
           data     == ReadData(p, n)
       IN  /\ ~UnpackOk(FrameStruct(row_type), data)
           /\ pos' = p + ReadLen(p, n)
           /\ avail' = ReadAvail(pos, PeekLen, n)
    /\ npeeks' = npeeks + 1
    /\ peeked' = Append(peeked, PeekEntry)
    /\ err' = "StructError"
    /\ pc' = Raise
    /\ UNCHANGED <<mode, file, frames, extra, args, bufsize, datafile,
                   report_file, header, stdout, tracker, fw, csv_rows, totals,
                   row, yielded, offsets, seen_fw, seen_tr, classified, start,
                   result, results>>

\* row_parser, one turn of its loop: a record is decoded and yielded
RowParserYield ==
    /\ pc = "next"
    /\ LoopCondition(Len(yielded), header)
    /\ UnpackOk(type_struct, PeekData)
    /\ LET row_type == UnpackFields(type_struct, PeekData)[1]
           n        == StructSize(FrameStruct(row_type))
           p        == PeekPos(pos, PeekLen)
           data     == ReadData(p, n)
       IN  /\ UnpackOk(FrameStruct(row_type), data)
           /\ pos' = p + ReadLen(p, n)
           /\ avail' = ReadAvail(pos, PeekLen, n)
           /\ row' = FrameReader(row_type, data)
           /\ yielded' = Append(yielded, FrameReader(row_type, data))
           /\ offsets' = Append(offsets, p)
    /\ npeeks' = npeeks + 1
    /\ peeked' = Append(peeked, PeekEntry)
    /\ pc' = AfterYield(fw, tracker.present)
    /\ UNCHANGED <<mode, file, frames, extra, args, bufsize, datafile,
                   report_file, header, stdout, tracker, fw, csv_rows, totals,
                   seen_fw, seen_tr, classified, start, err, result,
                   results>>

\* file_writer(row)
FileWriter ==
    /\ pc = "writer"
    /\ csv_rows' = Append(csv_rows, RowWriter(row))
    /\ seen_fw' = Append(seen_fw, row)
    /\ pc' = AfterWriter(tracker.present)
    /\ UNCHANGED <<mode, file, frames, extra, args, pos, avail, bufsize,
                   datafile, report_file, header, stdout, tracker, fw, totals,
                   row, yielded, offsets, seen_tr, classified, npeeks, start,
                   err, result,
                   peeked, results>>

\* user_account_tracker(row)
Tracker ==
    /\ pc = "tracker"
    /\ seen_tr' = Append(seen_tr, row)
    /\ IF TrackerReadsAmount(tracker, row) /\ ~HasAmount(row)
       THEN /\ err' = "AttributeError"
            /\ pc' = Raise
            /\ UNCHANGED tracker
       ELSE /\ tracker' = UserBalanceCall(tracker, row)
            /\ pc' = "classify"
            /\ UNCHANGED err
    /\ UNCHANGED <<mode, file, frames, extra, args, pos, avail, bufsize,
                   datafile, report_file, header, stdout, fw, csv_rows, totals,
                   row, yielded, offsets, seen_fw, classified, npeeks, start,
                   result,
                   peeked, results>>

\* the if/elif chain on row.event
Classify ==
    /\ pc = "classify"
    /\ IF Category(row) \in {"credits", "debits"} /\ ~HasAmount(row)
       THEN /\ err' = "AttributeError"
            /\ pc' = Raise
            /\ UNCHANGED <<totals, classified>>
       ELSE /\ totals' = Classified(totals, row)
            /\ classified' =
                  Append(classified, Changed(totals, Classified(totals, row)))
            /\ pc' = "next"
            /\ UNCHANGED err
    /\ UNCHANGED <<mode, file, frames, extra, args, pos, avail, bufsize,
                   datafile, report_file, header, stdout, tracker, fw,
                   csv_rows, row, yielded, offsets, seen_fw, seen_tr, npeeks,
                   start, result,
                   peeked, results>>

\* the two prints after get_data returned
PrintResults ==
    /\ pc = "print"
    /\ stdout' = stdout
                   \o (IF args.no_stats THEN <<<<"stats", result>>>> ELSE <<>>)
                   \o (IF tracker.present
                       THEN <<<<"balance", tracker.user_id, tracker.balance>>>>
                       ELSE <<>>)
    /\ pc' = "finally"
    /\ UNCHANGED <<mode, file, frames, extra, args, pos, avail, bufsize,
                   datafile, report_file, header, tracker, fw, csv_rows,
                   totals, row, yielded, offsets, seen_fw, seen_tr,
                   classified, npeeks, start, err, result,
                   peeked, results>>

\* the finally block; a pending exception then ends the program
Finally ==
    /\ pc = "finally"
    /\ datafile' = "closed"
    /\ report_file' = IF report_file = "open" THEN "closed" ELSE report_file
    /\ pc' = IF err = "" THEN "exit" ELSE "crashed"
    /\ UNCHANGED <<mode, file, frames, extra, args, pos, avail, bufsize,
                   header, stdout, tracker, fw, csv_rows, totals, row, yielded,
                   offsets, seen_fw, seen_tr, classified, npeeks, start, err,
                   result,
                   peeked, results>>

\* variant: the totals are kept from the call before
GetDataAgain_KeepTotals ==
    /\ pc = "done"
    /\ Len(results) < MaxCalls
    /\ pc' = "next"
    /\ UNCHANGED <<mode, file, frames, extra, args, pos, avail, bufsize,
                   datafile, report_file, header, stdout, tracker, fw,
                   csv_rows, totals, row, yielded, offsets, seen_fw, seen_tr,
                   classified, npeeks, start, err, result, peeked, results>>

\* get_data called again on the same reader, with the same observers,
\* after a call that returned
GetDataAgain ==
    /\ pc = "done"
    /\ Len(results) < MaxCalls
    /\ totals' = ZeroTotals
    /\ pc' = "next"
    /\ UNCHANGED <<mode, file, frames, extra, args, pos, avail, bufsize,
                   datafile, report_file, header, stdout, tracker, fw,
                   csv_rows, row, yielded, offsets, seen_fw, seen_tr,
                   classified, npeeks, start, err, result, peeked, results>>

Next ==
    \/ Open
    \/ HeaderReader
    \/ Setup
    \/ RowParserStop
    \/ RowParserRaise
    \/ RowParserYield
    \/ FileWriter
    \/ Tracker
    \/ Classify
    \/ PrintResults
    \/ Finally
    \/ GetDataAgain

Spec == Init /\ [][Next]_vars

SpecAnyBuffer == InitAnyBuffer /\ [][Next]_vars

TypeOK ==
    /\ pc \in {"start", "header", "setup", "next", "writer", "tracker",
               "classify", "print", "finally", "exit", "crashed", "done",
               "raised"}
    /\ pos \in 0..Len(file)
    /\ avail \in 0..bufsize

\* ------------------------------------------------------------ references
\* row_parser has run and is over (returned or raised)
StreamEnded ==
    \/ pc \in {"done", "raised", "print", "finally", "exit"}
    \/ pc = "crashed" /\ header # NoneVal

\* get_data returned normally
Returned == result # NoneVal

\* sum of the amounts (bytes 14-21) of the frames whose first byte is d
RECURSIVE RefAmount(_, _)
RefAmount(fs, d) ==
    IF fs = <<>> THEN 0
    ELSE (IF Head(fs)[1] = d THEN unpack_d(SubSeq(Head(fs), 14, 21)) ELSE 0)
            + RefAmount(Tail(fs), d)

\* number of the frames whose first byte is d
RECURSIVE RefCount(_, _)
RefCount(fs, d) ==
    IF fs = <<>> THEN 0
    ELSE (IF Head(fs)[1] = d THEN 1 ELSE 0) + RefCount(Tail(fs), d)

RefTotals(fs) ==
    <<RefAmount(fs, 1), RefAmount(fs, 0), RefCount(fs, 2), RefCount(fs, 3)>>

\* credits minus debits of the records rs whose user_id is u
RECURSIVE RefBalance(_, _)
RefBalance(rs, u) ==
    IF rs = <<>> THEN 0
    ELSE LET r == Head(rs) IN
         (IF r.user_id = u /\ r.event = 0 THEN r.amount
          ELSE IF r.user_id = u /\ r.event = 1 THEN 0 - r.amount
          ELSE 0) + RefBalance(Tail(rs), u)

IsPrefix(s, t) == Len(s) <= Len(t) /\ s = SubSeq(t, 1, Len(s))

\* ------------------------------------------------------------------ claims

\* C1 (as claimed): on k complete frames followed by a proper prefix of a
\* frame, row_parser yields exactly k records and ends without an error.
C1_StreamTermination ==
    StreamEnded => err = "" /\ Len(yielded) = Len(frames)

\* C2 (as claimed): when the input ends with a partial frame after k
\* complete frames, get_data raises nothing and returns the totals of
\* those k frames.
C2_TruncatedTotals ==
    (StreamEnded /\ extra # <<>>) =>
        err = "" /\ result = RefTotals(frames)

\* C3 (as claimed): on a stream of complete frames get_data returns the sum
\* of the DEBIT amounts, the sum of the CREDIT amounts, the number of
\* START_AUTOPAY and of STOP_AUTOPAY records, and every record is added to
\* exactly one of the four totals.
C3_ExactlyOneTotal ==
    (Returned /\ extra = <<>>) =>
        /\ result = RefTotals(frames)
        /\ \A i \in 1..Len(classified) : Cardinality(classified[i]) = 1

\* C3 (amended): the four totals are as claimed; a record whose event is
\* 0, 1, 2 or 3 is added to exactly one total (credits, debits, starts,
\* stops in that order) and a record with any other event to none.
C3_Totals ==
    (Returned /\ extra = <<>>) =>
        /\ result = RefTotals(frames)
        /\ Len(classified) = Len(frames)
        /\ \A i \in 1..Len(classified) :
              classified[i] =
                 (CASE frames[i][1] = 0 -> {"credits"}
                    [] frames[i][1] = 1 -> {"debits"}
                    [] frames[i][1] = 2 -> {"starts"}
                    [] frames[i][1] = 3 -> {"stops"}
                    [] OTHER -> {})

C3_Witness ==
    /\ pc = "done" /\ extra = <<>>
    /\ frames = <<UnknownFrame, DebitFrame>>
    /\ result = <<16, 0, 0, 0>>

\* C4: the balance of a tracker for user U is the sum of the amounts of the
\* CREDIT records with user_id U it received minus the sum of the amounts of
\* the DEBIT records with user_id U it received; other records change nothing.
C4_Balance ==
    tracker.present =>
        tracker.balance = RefBalance(seen_tr, tracker.user_id)

C4_Witness ==
    /\ tracker.present
    /\ Len(seen_tr) = 2
    /\ seen_tr[1].user_id = tracker.user_id /\ seen_tr[1].event = 0
    /\ seen_tr[2].user_id # tracker.user_id /\ seen_tr[2].event = 0
    /\ tracker.balance = 96

\* C5: every yielded record is passed to each registered observer exactly
\* once, in stream order, before it is added to the totals, and no observer
\* sees the next record before the record has been classified.
C5_ObserverOrder ==
    LET inLoop(s) == IF pc \in s THEN 1 ELSE 0 IN
    /\ fw => /\ IsPrefix(seen_fw, yielded)
             /\ Len(seen_fw) = Len(yielded) - inLoop({"writer"})
             /\ Len(classified) <= Len(seen_fw)
             /\ Len(seen_fw) <= Len(classified) + 1
    /\ tracker.present =>
             /\ IsPrefix(seen_tr, yielded)
             /\ Len(seen_tr) = Len(yielded) - inLoop({"writer", "tracker"})
             /\ Len(classified) <= Len(seen_tr)
             /\ Len(seen_tr) <= Len(classified) + 1
    /\ Len(classified) =
          Len(yielded) - inLoop({"writer", "tracker", "classify"})

C5_Witness ==
    /\ fw /\ tracker.present
    /\ pc = "classify"
    /\ Len(yielded) = 2 /\ seen_fw = yielded /\ seen_tr = yielded
    /\ Len(classified) = 1

\* C6: at a frame boundary with a full frame available row_parser consumes
\* 21 bytes and yields a Transaction when the first byte is 0 or 1, and
\* otherwise consumes 13 bytes and yields an Instruction; the records come
\* out in file order, one per complete frame, and the cursor has advanced
\* by the sum of their sizes.
C6_Size(d) == IF d \in {0, 1} THEN 21 ELSE 13

C6_Shape(d) == IF d \in {0, 1} THEN "Transaction" ELSE "Instruction"

RECURSIVE C6_SumSizes(_)
C6_SumSizes(fs) ==
    IF fs = <<>> THEN 0 ELSE C6_Size(Head(fs)[1]) + C6_SumSizes(Tail(fs))

C6_FrameConsumption ==
    /\ Len(offsets) = Len(yielded)
    /\ Len(yielded) <= Len(frames)
    /\ \A i \in 1..Len(yielded) :
          /\ offsets[i] = start + C6_SumSizes(SubSeq(frames, 1, i - 1))
          /\ yielded[i].shape = C6_Shape(frames[i][1])
          /\ yielded[i].event = SignedByte(frames[i][1])
          /\ Len(frames[i]) = C6_Size(frames[i][1])
    /\ (pc \in {"next", "writer", "tracker", "classify"}) =>
          pos = start + C6_SumSizes(SubSeq(frames, 1, Len(yielded)))
    /\ StreamEnded => Len(yielded) = Len(frames)

C6_Witness ==
    /\ pc = "classify"
    /\ frames = <<DebitFrame, StopFrame>>
    /\ Len(yielded) = 2
    /\ pos = start + 34

\* C7 (as claimed): header_reader reads exactly 13 bytes and leaves the
\* cursor at offset 13, where the first record frame is read.
C7_Header13 ==
    /\ pc = "setup" => pos = 13
    /\ (mode = "cli" /\ Len(offsets) >= 1) => offsets[1] = 13

\* C7 (amended): header_reader reads exactly 9 bytes and leaves the cursor
\* at offset 9, where the first record frame is read.
C7_Header9 ==
    /\ pc = "setup" => pos = 9
    /\ (mode = "cli" /\ Len(offsets) >= 1) => offsets[1] = 9

C7_Witness ==
    /\ mode = "cli" /\ header # NoneVal
    /\ Len(offsets) = 1 /\ pos = 9 + 21

\* C8 (as claimed): in the command-line run the opened input is closed on
\* every exit path, also when header decoding or record processing fails.
C8_ClosedOnExit ==
    (mode = "cli" /\ pc \in {"exit", "crashed"}) => datafile = "closed"

\* C9 (as claimed): a record's timestamp is the unsigned big-endian value
\* of frame bytes 2-5 and its user_id the unsigned big-endian value of frame
\* bytes 6-13; neither is negative.
C9_Unsigned ==
    \A i \in 1..Len(yielded) :
        /\ yielded[i].timestamp
              = UnsignedInt(SubSeq(file, offsets[i] + 2, offsets[i] + 5))
        /\ yielded[i].user_id
              = UnsignedInt(SubSeq(file, offsets[i] + 6, offsets[i] + 13))
        /\ ~yielded[i].timestamp.neg
        /\ ~yielded[i].user_id.neg

\* C10: when the header cannot be decoded (fewer than 9 bytes, or a name
\* that is not UTF-8) the program ends with the error, and no record frame
\* is peeked or read and no observer or total is touched.
C10_BadHeader ==
    LET bad == Len(file) < 9 \/ ~Utf8Valid(SubSeq(file, 1, 4)) IN
    (mode = "cli" /\ bad) =>
        /\ pc \in {"start", "header", "crashed"}
        /\ pc = "crashed" =>
              err = (IF Len(file) < 9 THEN "StructError"
                     ELSE "UnicodeDecodeError")
        /\ npeeks = 0 /\ pos <= 9
        /\ yielded = <<>> /\ seen_fw = <<>> /\ seen_tr = <<>>
        /\ classified = <<>> /\ totals = ZeroTotals
        /\ tracker = NoTracker /\ report_file = "none" /\ csv_rows = <<>>
        /\ result = NoneVal

C10_Witness ==
    /\ pc = "crashed" /\ err = "UnicodeDecodeError"
    /\ Len(file) > 9 /\ frames # <<>>

\* row_parser has been started
RowParserStarted == pc \in {"next", "writer", "tracker", "classify"} \/ StreamEnded

\* the offsets at which a frame of the input starts or ends
FrameBoundaries ==
    {start + C6_SumSizes(SubSeq(frames, 1, j)) : j \in 0..Len(frames)}

\* C11: the peek of the discriminant leaves the cursor where it was; the
\* frame read starts at the offset of the peek, the peeked byte is the first
\* byte of the frame, every record's event is the peeked discriminant, and a
\* record is a Transaction exactly when its event is 0 or 1.
C11_PeekKeepsOffset ==
    /\ \A i \in 1..Len(peeked) : peeked[i].after = peeked[i].at
    /\ Len(peeked) >= Len(yielded)
    /\ \A i \in 1..Len(yielded) :
          /\ peeked[i].at = offsets[i]
          /\ peeked[i].data = <<file[offsets[i] + 1]>>
          /\ yielded[i].event = SignedByte(peeked[i].data[1])
          /\ (yielded[i].shape = "Transaction") <=> (yielded[i].event \in {0, 1})
          /\ (yielded[i].shape = "Instruction") <=> (yielded[i].event \notin {0, 1})

C11_Witness ==
    /\ Len(yielded) = 2 /\ Len(peeked) = 3
    /\ yielded[1].shape = "Transaction" /\ peeked[1].data = <<1>>
    /\ yielded[2].shape = "Instruction" /\ peeked[2].data = <<129>>
    /\ yielded[2].event = -127

\* C12 (as claimed): wherever row_parser yields, ends or fails the cursor is
\* at a frame boundary; a partial trailing frame is never partly consumed.
C12_FrameAtomic ==
    RowParserStarted => pos \in FrameBoundaries

\* C13: a frame whose discriminant is outside 0..3 is read as a 13-byte
\* Instruction, is passed to the registered observers, changes none of the
\* four totals and not the balance, and the frames after it are parsed.
C13_UnknownInv ==
    \A i \in 1..Len(yielded) :
        (frames[i][1] \notin {0, 1, 2, 3}) =>
            /\ yielded[i].shape = "Instruction"
            /\ yielded[i].event \notin {0, 1, 2, 3}
            /\ i < Len(yielded) => offsets[i + 1] = offsets[i] + 13
            /\ (i = Len(yielded) /\ pc \in {"writer", "tracker", "classify"})
                  => pos = offsets[i] + 13
            /\ i <= Len(classified) =>
                  /\ classified[i] = {}
                  /\ fw => seen_fw[i] = yielded[i]
                  /\ tracker.present => seen_tr[i] = yielded[i]
            /\ StreamEnded => Len(yielded) = Len(frames)

C13_UnknownStep ==
    (pc \in {"writer", "tracker", "classify"} /\ row.event \notin {0, 1, 2, 3})
        => /\ totals' = totals
           /\ tracker'.balance = tracker.balance
           /\ err' = ""
           /\ pc = "classify" => pc' = "next"

C13_UnknownDiscriminant == []C13_UnknownInv /\ [][C13_UnknownStep]_vars

C13_Witness ==
    /\ pc = "done" /\ fw /\ tracker.present
    /\ frames = <<UnknownFrame2, CreditFrame2>>
    /\ tracker.user_id = PyInt(TRUE, <<7>>)
    /\ seen_tr = yielded /\ seen_fw = yielded
    /\ tracker.balance = 128
    /\ results = <<<<0, 128, 0, 0>>>>

\* C14 (as claimed): row_parser ends the stream at the peek only when no
\* unread byte remains, whatever number of bytes the peek returns.
C14_StopOnlyAtEnd ==
    (pc \in {"done", "print"}) => pos = Len(file)

\* C15 (as claimed): with --user_id U the final balance reported is the sum
\* of the CREDIT amounts minus the sum of the DEBIT amounts of the records
\* of the file whose user_id is U.
C15_UserId(a) == CASE a = PyStr("7") -> PyInt(FALSE, <<7>>)

C15_CliBalance ==
    (mode = "cli" /\ pc = "exit" /\ Truthy(args.user_id)) =>
        /\ stdout # <<>>
        /\ stdout[Len(stdout)] =
              <<"balance", args.user_id,
                RefBalance(yielded, C15_UserId(args.user_id))>>

\* C16: once a call of get_data has returned at the end of the source, no
\* further record is yielded or shown to an observer, the cursor, the
\* tracker and the result already returned do not change, and every later
\* call returns (0, 0, 0, 0).
C16_AfterEnd ==
    results # <<>> =>
        /\ yielded' = yielded /\ offsets' = offsets /\ pos' = pos
        /\ seen_fw' = seen_fw /\ seen_tr' = seen_tr
        /\ classified' = classified
        /\ tracker' = tracker /\ result' = result
        /\ IsPrefix(results, results')
        /\ results' # results => results'[Len(results')] = <<0, 0, 0, 0>>

C16_SinglePass == [][C16_AfterEnd]_vars

C16_Witness ==
    /\ pc = "done" /\ Len(results) = 2
    /\ result = <<16, 96, 0, 0>>
    /\ results = <<<<16, 96, 0, 0>>, <<0, 0, 0, 0>>>>
    /\ tracker.present /\ tracker.balance = 80
    /\ Len(yielded) = 2

\* C17: the header's record_count neither limits nor extends the stream:
\* whatever count is declared, one record is decoded per complete frame that
\* follows the header, and each is aggregated.
C17_CountNotEnforced ==
    (mode = "cli" /\ header # NoneVal) =>
        /\ \A i \in 1..Len(yielded) : yielded[i].event = SignedByte(frames[i][1])
        /\ StreamEnded =>
              /\ Len(yielded) = Len(frames)
              /\ err = "" => Len(classified) = Len(frames)

C17_Witness ==
    /\ mode = "cli" /\ pc = "exit"
    /\ header.record_count = PyInt(FALSE, <<0>>)
    /\ Len(yielded) = 2 /\ Len(classified) = 2

\* C18: the totals, the bytes consumed and the outcome of get_data are a
\* function of the input bytes alone, and the balance a function of the input
\* bytes and the tracked user alone: they are the same with and without a
\* file_writer or a tracker registered.
C18_Decoded ==
    [i \in 1..Len(frames) |-> FrameReader(SignedByte(frames[i][1]), frames[i])]

C18_ObserversNoInfluence ==
    /\ results = <<>> =>
          <<totals.debits, totals.credits, totals.starts, totals.stops>>
             = RefTotals(SubSeq(frames, 1, Len(classified)))
    /\ (RowParserStarted /\ ~StreamEnded) =>
          pos = start + C6_SumSizes(SubSeq(frames, 1, Len(yielded)))
    /\ StreamEnded =>
          /\ pos = Len(file)
          /\ err = (IF extra = <<>> THEN "" ELSE "StructError")
          /\ Returned <=> extra = <<>>
          /\ Returned => result = RefTotals(frames)
          /\ tracker.present =>
                tracker.balance = RefBalance(C18_Decoded, tracker.user_id)

C18_Witness ==
    /\ pc = "done" /\ Len(results) = 1
    /\ fw /\ tracker.present
    /\ frames = <<CreditFrame2, DebitFrame>>
    /\ result = <<16, 128, 0, 0>>
    /\ tracker.balance = 128
    /\ Len(csv_rows) = 2

====
